---- MODULE Spec2Model ----
(***************************************************************************)
(* State-machine model of the command execution and fallback logic of      *)
(* create-supabase-next (lib/project-initializer.js, lib/error-handler.js, *)
(* lib/logger.js).                                                         *)
(*                                                                         *)
(* An error value is a record [msg, code, signal].  msg abstracts the      *)
(* message text by the family it belongs to; MsgIncludes gives the result  *)
(* of String.prototype.includes on the two markers the code looks for.     *)
(***************************************************************************)
EXTENDS Integers, Sequences, FiniteSets, TLC

\* ------------------------------------------------------------------ bounds
\* Largest maxRetries argument explored for a direct executeWithRetry call.
MaxRetriesBound == 5

\* Calls of initializeTailwind on one project directory.
MaxRuns == 2

\* Abandoned child processes alive at a time.
MaxAbandoned == 2

\* Deadline timers of earlier executeWithRetry calls pending at a time.
MaxStale == 1

\* ------------------------------------------------------------ error values
Err(m, c, s) == [msg |-> m, code |-> c, signal |-> s]

NoError == Err("none", "none", "none")

\* new Error(`Command timed out after ${timeout}ms`)
TimeoutError == Err("timed out", "none", "none")

\* error.code values the initializer inspects
Codes == {"ETIMEDOUT", "ECONNRESET", "ECONNREFUSED", "ENOTFOUND",
          "ENOENT", "EACCES", "EEXIST"}

\* Rejections of the execa promise: a non-zero exit, a failure whose message
\* carries the "context canceled" text, termination by a signal, and failures
\* carrying a system error code.
ProcFailures ==
    {Err("exit", "none", "none"),
     Err("context canceled", "none", "none"),
     Err("killed", "none", "SIGTERM")}
    \cup {Err("syscall", c, "none") : c \in Codes}

\* error.message.includes(marker)
MsgIncludes(e, marker) == e.msg = marker

\* The test of the catch block of executeWithRetry.
isTransientErrorNoTimeout(error) ==
    \/ MsgIncludes(error, "context canceled")
    \/ error.code = "ETIMEDOUT"
    \/ error.code = "ECONNRESET"
    \/ error.code = "ECONNREFUSED"

isTransientError(error) ==
    \/ MsgIncludes(error, "context canceled")
    \/ MsgIncludes(error, "timed out")
    \/ error.code = "ETIMEDOUT"
    \/ error.code = "ECONNRESET"
    \/ error.code = "ECONNREFUSED"

Pow2(n) == 2 ^ n

Min(a, b) == IF a < b THEN a ELSE b

\* Math.min(1000 * Math.pow(2, retryCount), 10000)
backoffTimeUncapped(rc) == 1000 * Pow2(rc)

backoffTime(rc) == Min(1000 * Pow2(rc), 10000)

\* --------------------------------------------------------- error handling
\* Errors constructed by the initializer itself.
SupabaseFailed == Err("Failed to initialize Supabase", "none", "none")

TailwindFailed == Err("Failed to initialize Tailwind CSS", "none", "none")

\* TypeError: errorHandler.<name> is not a function
NotAFunction == Err("is not a function", "none", "none")

\* Failures of fs.writeFileSync.
FsFailures == {Err("syscall", c, "none") : c \in {"EACCES", "ENOENT", "ENOSPC"}}

\* Failures of child_process.execSync (a timeout kills the child with
\* SIGTERM and reports ETIMEDOUT).
ExecSyncFailures == ProcFailures \cup {Err("syscall", "ETIMEDOUT", "SIGTERM")}

\* module.exports of lib/error-handler.js
Exported == {"handleError", "handleDependencyError", "handleNetworkError",
             "handleFileSystemError"}

\* errorHandler.<name>(error): NoError when the call returns, otherwise the
\* error the call raises.  The exported handlers only print.
CallHandler(name, error) ==
    IF name \in Exported THEN NoError ELSE NotAFunction

\* message.includes('context canceled') || message.includes('timed out') ||
\* code === 'ETIMEDOUT' || signal
IsProcessError(e) ==
    \/ MsgIncludes(e, "context canceled")
    \/ MsgIncludes(e, "timed out")
    \/ e.code = "ETIMEDOUT"
    \/ e.signal # "none"

\* code === 'ENOTFOUND' || code === 'ECONNREFUSED' || code === 'ECONNRESET'
IsNetworkError(e) == e.code \in {"ENOTFOUND", "ECONNREFUSED", "ECONNRESET"}

\* if (process error) handleProcessError(e) else logger.warn(...)
\* The value is the error raised while handling e, NoError if none.
HandleOrWarn(e) ==
    IF IsProcessError(e) THEN CallHandler("handleProcessError", e)
    ELSE NoError

\* if (process error) handleProcessError(e)
\* else if (network error) handleNetworkError(e)
HandleProcessOrNetwork(e) ==
    IF IsProcessError(e) THEN CallHandler("handleProcessError", e)
    ELSE IF IsNetworkError(e) THEN CallHandler("handleNetworkError", e)
    ELSE NoError

\* if (process error) handleProcessError(e)
\* else if (network error) handleNetworkError(e) else handleError(e)
\* The handler that dispatch selects.
Route(e) ==
    IF IsProcessError(e) THEN "handleProcessError"
    ELSE IF IsNetworkError(e) THEN "handleNetworkError"
    ELSE "handleError"

Dispatch(e) == CallHandler(Route(e), e)

\* Default value of the maxRetries parameter of executeWithRetry.
DefaultMaxRetries == 3

\* maxRetries passed by installDependencies to its second round of installs.
AlternativeMaxRetries == 2

\* The strategy a task falls back to after strategy s failed.
FallbackEarlyManual(t, s) ==
    IF t = "initializeTailwind"
    THEN (IF s = "npx" THEN "direct" ELSE "manual")
    ELSE IF t = "initializeSupabase"
    THEN (IF s = "npx" THEN "direct" ELSE "execSync")
    ELSE "alternative"

FallbackSwapped(t, s) ==
    IF t = "initializeTailwind"
    THEN (IF s = "npx" THEN "local" ELSE IF s = "local" THEN "direct"
          ELSE "manual")
    ELSE IF t = "initializeSupabase"
    THEN (IF s = "npx" THEN "direct" ELSE "execSync")
    ELSE "alternative"

Fallback(t, s) ==
    IF t = "initializeTailwind"
    THEN (IF s = "npx" THEN "direct" ELSE IF s = "direct" THEN "local"
          ELSE "manual")
    ELSE IF t = "initializeSupabase"
    THEN (IF s = "npx" THEN "direct" ELSE "execSync")
    ELSE "alternative"

ConfigFiles == {"tailwind.config.js", "postcss.config.js"}

\* const numInstances = 3 of test-supabase-stress.js
numInstances == 3

Instances == 0 .. (numInstances - 1)

\* const tailwindConfig = `...`, line by line.
tailwindConfigNoMdx ==
    << "/** @type {import('tailwindcss').Config} */",
       "module.exports = {",
       "  content: [",
       "    \"./app/**/*.{js,ts,jsx,tsx}\",",
       "    \"./pages/**/*.{js,ts,jsx,tsx}\",",
       "    \"./components/**/*.{js,ts,jsx,tsx}\",",
       "  ],",
       "  theme: {",
       "    extend: {},",
       "  },",
       "  plugins: [],",
       "}" >>

tailwindConfig ==
    << "/** @type {import('tailwindcss').Config} */",
       "module.exports = {",
       "  content: [",
       "    \"./app/**/*.{js,ts,jsx,tsx,mdx}\",",
       "    \"./pages/**/*.{js,ts,jsx,tsx,mdx}\",",
       "    \"./components/**/*.{js,ts,jsx,tsx,mdx}\",",
       "  ],",
       "  theme: {",
       "    extend: {},",
       "  },",
       "  plugins: [],",
       "}" >>

\* const postcssConfig = `...`, line by line.
postcssConfig ==
    << "module.exports = {",
       "  plugins: {",
       "    tailwindcss: {},",
       "    autoprefixer: {},",
       "  },",
       "}" >>

\* The data initializeTailwind passes to fs.writeFileSync for each path.
ManualContent(f) ==
    IF f = "tailwind.config.js" THEN tailwindConfig ELSE postcssConfig

\* A file that does not exist.
Absent == [exists |-> FALSE, text |-> <<>>]

\* A file as `tailwindcss init -p` creates it; its text is the tool's own.
ToolFile == [exists |-> TRUE, text |-> <<"created by tailwindcss init -p">>]

\* fs.writeFileSync(path, data) with no options: the file is created, or
\* truncated if it exists, and holds data afterwards.
appendFileSync(old, data) == [exists |-> TRUE, text |-> old.text \o data]

writeFileSync(old, data) == [exists |-> TRUE, text |-> data]

\* The manual strategy returns only after both fs.writeFileSync calls
\* returned; w is the number of writes that did.
BothWrittenAlways(w) == TRUE

BothWritten(w) == w = 2

\* ------------------------------------------------------------------- state
VARIABLES
    task,         \* the function under execution, "none" before the call
    site,         \* the executeWithRetry call site the task is waiting on
    attempted,    \* strategies of the task tried so far, with their outcome
    reported,     \* logger.warn calls of the task that announce a fallback
    result,       \* "pending", "resolved" or "rejected": how the task settled
    resultError,  \* the error the task rejected with
    spinner,      \* logger.js: TRUE iff the module variable spinner is not null
    files,        \* tailwind.config.js and postcss.config.js on disk
    lastFailure,  \* the error of the strategy whose failure ended the task
    handler,      \* the handler the outermost catch block of the task chose
    gitWarnings,  \* logger.warn calls made by initializeGit
    runs,         \* calls of initializeTailwind made on the project directory
    prevFiles,    \* the value of files when the latest of them began
    pc,           \* position inside executeWithRetry
    maxRetries,   \* argument of the current executeWithRetry call
    retryCount,   \* local of executeWithRetry
    lastError,    \* local of executeWithRetry
    thrown,       \* the error the call threw, NoError if none
    procs,        \* per attempt of the current call: its child process, which is
                  \* "running", "ok" (exit 0 while awaited), "failed" (rejected
                  \* while awaited) or "gone" (ended after its attempt timed out)
    timersFired,  \* how many deadline timers of the current call have fired
    sleeps,       \* backoff delays slept by the current call, in ms
    warns,        \* logger.warn calls made by the current call
    orphans,      \* children of earlier calls that still run
    staleTimers,  \* deadline timers of earlier calls that are still pending
    run,          \* index.js main: "none", "running" (initialize is awaited),
                  \* "resolved", "rejected", "aborted" (exit before
                  \* initialize) or "interrupted" (ended by a signal)
    ran,          \* the tasks initialize has started, in order
    template,     \* initialize: templateRepo, the answer of
                  \* validateRepositoryUrl to it (isValidRepo) and the
                  \* repository handed to downloadTemplate (downloaded)
    setup,        \* the `npm run setup` child of main
    exitCode,     \* argument of process.exit, -1 while the process lives
    deps,         \* index.js main: "unchecked", "ok" (the dependency check
                  \* passed or was skipped) or "missing"
    target,       \* the target directory: "unknown" until main looks at it,
                  \* "absent", "kept" (it exists as it was), "removed" (by
                  \* main), "undeletable" (fs.remove threw) or "created"
                  \* (by create-next-app)
    stress,       \* test-supabase-stress.js runStressTest: "none", "running"
                  \* (Promise.allSettled is awaited), "done" or "failed"
    inst,         \* per instance of the stress test: "new", "delay", "npx",
                  \* "direct", "fulfilled" or "rejected"
    holder,       \* the instance that started the spinner the logger module
                  \* holds, -1 if the logger holds none
    endedBy,      \* per instance: the instance whose logger call stopped,
                  \* succeeded or failed its spinner, -1 if it still spins
    successCount, \* local of runStressTest
    failureCount, \* local of runStressTest
    removed       \* TRUE iff the test directories have been removed

stressVars == <<stress, inst, holder, endedBy, successCount, failureCount,
                removed>>

execVars == <<pc, maxRetries, retryCount, lastError, thrown, procs,
              timersFired, sleeps, warns>>

mainVars == <<run, ran, template, stressVars, deps, target, setup, exitCode>>

taskVars == <<task, site, attempted, reported, result, resultError, spinner, files,
              lastFailure, handler, gitWarnings, runs, prevFiles,
              run, ran, template, stressVars, deps, target, setup, exitCode>>

vars == <<task, site, attempted, reported, result, resultError, spinner, files,
          lastFailure, handler, gitWarnings, runs, prevFiles,
          pc, maxRetries, retryCount, lastError, thrown, procs,
          timersFired, sleeps, warns, orphans, staleTimers,
          run, ran, template, stressVars, deps, target, setup, exitCode>>

\* ------------------------------------------------- executeWithRetry pieces
\* while (retryCount <= maxRetries)
LoopCond(rc, mx) == rc <= mx

\* isTransientError && retryCount < maxRetries
CanRetryInclusive(error, rc, mx) == isTransientError(error) /\ rc <= mx

CanRetryOneLess(error, rc, mx) == isTransientError(error) /\ rc + 1 < mx

CanRetryAnyError(error, rc, mx) == rc < mx

CanRetry(error, rc, mx) == isTransientError(error) /\ rc < mx

\* throw error  (the error caught in this iteration; prev is the value
\* lastError held before this iteration assigned it)
ThrownErrorStale(error, prev) == IF prev = NoError THEN error ELSE prev

ThrownError(error, prev) == error

\* Number of entries of a sequence of process states that are "running".
RECURSIVE Running(_)
Running(ps) ==
    IF ps = <<>> THEN 0
    ELSE (IF Head(ps) = "running" THEN 1 ELSE 0) + Running(Tail(ps))

\* Entry of executeWithRetry(command, args, options, mx, timeout) up to its
\* first await.  What the previous call of the task left behind (children
\* still running, timers still armed) stays behind.  The first conjunct keeps
\* the number of pending timers of earlier calls within MaxStale: the call
\* is explored from the states in which the others have fired.
StartExec(mx) ==
    /\ staleTimers + (Len(procs) - timersFired) <= MaxStale
    /\ maxRetries' = mx
    /\ retryCount' = 0
    /\ lastError' = NoError
    /\ thrown' = NoError
    /\ sleeps' = <<>>
    /\ warns' = 0
    /\ timersFired' = 0
    /\ orphans' = orphans + Running(procs)
    /\ staleTimers' = staleTimers + (Len(procs) - timersFired)
    /\ IF LoopCond(0, mx)
       THEN procs' = <<"running">> /\ pc' = "await"
       ELSE procs' = <<>> /\ pc' = "returned"

\* One more loop iteration up to the await: arm the deadline timer, spawn
\* the child with execa, attach the stream handlers, wait on Promise.race.
\* Falling out of the loop resolves the call with undefined.
Iterate(rc) ==
    IF LoopCond(rc, maxRetries)
    THEN /\ procs' = Append(procs, "running")
         /\ pc' = "await"
    ELSE /\ procs' = procs
         /\ pc' = "returned"

\* The catch block.
Catch(error) ==
    /\ lastError' = error
    /\ IF CanRetry(error, retryCount, maxRetries)
       THEN /\ warns' = warns + 1
            /\ sleeps' = Append(sleeps, backoffTime(retryCount))
            /\ pc' = "backoff"
            /\ thrown' = thrown
       ELSE /\ pc' = "thrown"
            /\ thrown' = ThrownError(error, lastError)
            /\ UNCHANGED <<warns, sleeps>>

\* The child process of the attempt being awaited.
Current == Len(procs)

\* The awaited child exits with code 0 before the deadline.
ProcessSucceeds ==
    /\ pc = "await"
    /\ procs[Current] = "running"
    /\ procs' = [procs EXCEPT ![Current] = "ok"]
    /\ pc' = "returned"
    /\ UNCHANGED <<maxRetries, retryCount, lastError, thrown, timersFired,
                   sleeps, warns, orphans, staleTimers>>
    /\ UNCHANGED taskVars

\* The execa promise of the awaited child rejects before the deadline.
ProcessFails ==
    /\ pc = "await"
    /\ procs[Current] = "running"
    /\ \E e \in ProcFailures :
          /\ procs' = [procs EXCEPT ![Current] = "failed"]
          /\ Catch(e)
    /\ UNCHANGED <<maxRetries, retryCount, timersFired, orphans, staleTimers>>
    /\ UNCHANGED taskVars

\* The deadline timer of the awaited attempt fires first.  Timers of one
\* call have the same delay, so they fire in the order they were armed.
\* Nothing in the code signals the child: it stays as it was.  At most
\* MaxAbandoned children left running this way are followed at a time.
AttemptTimesOut ==
    /\ pc = "await"
    /\ procs[Current] = "running"
    /\ timersFired = Current - 1
    /\ orphans + Running(procs) <= MaxAbandoned
    /\ timersFired' = timersFired + 1
    /\ Catch(TimeoutError)
    /\ UNCHANGED <<maxRetries, retryCount, procs, orphans, staleTimers>>
    /\ UNCHANGED taskVars

\* retryCount++
IncrementSkipped(rc) == rc

Increment(rc) == rc + 1

\* The backoff timer fires: retryCount++ and the loop goes round.
BackoffElapsed ==
    /\ pc = "backoff"
    /\ retryCount' = Increment(retryCount)
    /\ Iterate(Increment(retryCount))
    /\ UNCHANGED <<maxRetries, lastError, thrown, timersFired,
                   sleeps, warns, orphans, staleTimers>>
    /\ UNCHANGED taskVars

\* The deadline timer of an attempt that is already over fires; its
\* rejection goes to a race that is already settled.
\* The timer armed in iteration i rejects the timeoutPromise of iteration i,
\* a const of the loop body, which only the race of iteration i awaits.
RaceOfLatest(i) == Current

RaceOf(i) == i

LateTimerFires ==
    /\ exitCode = -1
    /\ \/ /\ timersFired < (IF pc = "await" THEN Current - 1 ELSE Current)
          /\ timersFired' = timersFired + 1
          /\ IF pc = "await" /\ RaceOf(timersFired + 1) = Current
             THEN Catch(TimeoutError)
             ELSE UNCHANGED <<pc, lastError, thrown, sleeps, warns>>
          /\ UNCHANGED staleTimers
       \/ /\ staleTimers > 0
          /\ staleTimers' = staleTimers - 1
          /\ UNCHANGED <<timersFired, pc, lastError, thrown, sleeps, warns>>
    /\ UNCHANGED <<maxRetries, retryCount, procs, orphans>>
    /\ UNCHANGED taskVars

\* A child whose attempt timed out ends on its own, later.
AbandonedProcessExits ==
    /\ \/ /\ \E i \in 1..Len(procs) :
                /\ procs[i] = "running"
                /\ ~(pc = "await" /\ i = Current)
                /\ procs' = [procs EXCEPT ![i] = "gone"]
          /\ UNCHANGED orphans
       \/ /\ orphans > 0
          /\ orphans' = orphans - 1
          /\ UNCHANGED procs
    /\ UNCHANGED <<pc, maxRetries, retryCount, lastError, thrown,
                   timersFired, sleeps, warns, staleTimers>>
    /\ UNCHANGED taskVars

\* A direct call executeWithRetry(command, args, options, mx, timeout).
executeWithRetry ==
    /\ task = "none"
    /\ \E mx \in 0..MaxRetriesBound : StartExec(mx)
    /\ task' = "executeWithRetry"
    /\ site' = "call"
    /\ UNCHANGED <<attempted, reported, result, resultError, spinner, files,
                   lastFailure, handler, gitWarnings, runs, prevFiles>>
    /\ UNCHANGED mainVars

\* ------------------------------------------------------------ task pieces
\* The outcome of the strategy in progress is recorded.
Mark(r) == [attempted EXCEPT ![Len(attempted)].r = r]

Started(s) == [s |-> s, r |-> "run"]

\* A task begins: nothing of the previous task's outcome is left.
Pending ==
    /\ result' = "pending"
    /\ resultError' = NoError
    /\ lastFailure' = NoError
    /\ handler' = "none"

Begin(t) ==
    /\ task' = t
    /\ Pending

\* The outermost catch block of a task: failSpinner, dispatch on the kind
\* of the error, throw error.  An error raised by the dispatch replaces it.
OuterCatch(error) ==
    /\ spinner' = FALSE
    /\ result' = "rejected"
    /\ resultError' = IF Dispatch(error) # NoError THEN Dispatch(error)
                      ELSE error
    /\ pc' = "idle"
    /\ UNCHANGED <<maxRetries, retryCount, lastError, thrown, procs,
                   timersFired, sleeps, warns, orphans, staleTimers>>

\* The error thrown once the last strategy of a task failed with error last.
ChainFailureRethrow(t, last) == last

ChainFailure(t, last) ==
    IF t = "initializeTailwind" THEN TailwindFailed
    ELSE IF t = "initializeSupabase" THEN SupabaseFailed
    ELSE last

\* The strategy in progress failed with error last and the task gives up:
\* error reaches the outermost catch block.
Reject(last, error) ==
    /\ lastFailure' = last
    /\ handler' = Route(error)
    /\ OuterCatch(error)

\* succeedSpinner(...) and the task resolves.
Resolve ==
    /\ spinner' = FALSE
    /\ result' = "resolved"
    /\ pc' = "idle"
    /\ UNCHANGED <<resultError, lastFailure, handler, maxRetries, retryCount,
                   lastError, thrown, procs, timersFired, sleeps, warns,
                   orphans, staleTimers>>

\* logger.warn(`... failed: ${error.message}. Trying ...`) before the next
\* strategy is started; n is the number of such calls made so far.
WarnOnFallbackSilent(n) == n

WarnOnFallback(n) == n + 1

\* The task moves on to its next strategy, an executeWithRetry call.
FallBackTo(mx) ==
    /\ StartExec(mx)
    /\ site' = Fallback(task, site)
    /\ attempted' = Append(Mark("fail"), Started(Fallback(task, site)))
    /\ reported' = WarnOnFallback(reported)
    /\ UNCHANGED <<task, result, resultError, lastFailure, handler, spinner, files>>

\* ------------------------------------------------------ initializeTailwind
\* Entry of initializeTailwind up to its first await.
StartTailwind ==
    /\ Begin("initializeTailwind")
    /\ spinner' = TRUE
    /\ site' = "npx"
    /\ attempted' = <<Started("npx")>>
    /\ reported' = 0
    /\ StartExec(DefaultMaxRetries)
    /\ runs' = runs + 1
    /\ prevFiles' = files
    /\ UNCHANGED <<files, gitWarnings>>

initializeTailwind ==
    /\ task = "none"
    /\ StartTailwind
    /\ UNCHANGED mainVars

\* initializeTailwind is called once more on a directory in which an
\* earlier call created both files itself.
initializeTailwindAgain ==
    /\ run = "none"
    /\ task = "initializeTailwind"
    /\ result = "resolved"
    /\ attempted[Len(attempted)].s = "manual"
    /\ runs < MaxRuns
    /\ StartTailwind
    /\ UNCHANGED mainVars

\* The awaited executeWithRetry call resolved: `tailwindcss init -p` exited
\* with 0.  It created the files; whether it replaces an existing one is the
\* tool's choice.
TailwindReturned ==
    /\ task = "initializeTailwind"
    /\ pc = "returned"
    /\ attempted' = Mark("ok")
    /\ UNCHANGED reported
    /\ \E keep \in BOOLEAN :
         files' = [f \in ConfigFiles |->
                     IF files[f].exists /\ keep THEN files[f] ELSE ToolFile]
    /\ Resolve
    /\ UNCHANGED <<task, site, gitWarnings, runs, prevFiles>>
    /\ UNCHANGED mainVars

\* Manual creation of the two files with fs.writeFileSync, the last resort.
\* w tells how far the writes got; fe is the error of the write that failed.
TailwindManual(w, fe) ==
    /\ reported' = WarnOnFallback(reported)
    /\ attempted' = Append(Mark("fail"),
                           [s |-> "manual",
                            r |-> IF BothWritten(w) THEN "ok" ELSE "fail"])
    /\ files' = [f \in ConfigFiles |->
                   IF \/ f = "tailwind.config.js" /\ w >= 1
                      \/ f = "postcss.config.js" /\ w >= 2
                   THEN writeFileSync(files[f], ManualContent(f))
                   ELSE files[f]]
    /\ IF BothWritten(w) THEN Resolve
       ELSE IF HandleOrWarn(fe) # NoError THEN Reject(fe, HandleOrWarn(fe))
       ELSE Reject(fe, ChainFailure(task, fe))
    /\ UNCHANGED <<task, site, gitWarnings, runs, prevFiles>>

\* The awaited executeWithRetry call threw.
TailwindThrown ==
    /\ task = "initializeTailwind"
    /\ pc = "thrown"
    /\ IF HandleOrWarn(thrown) # NoError
       THEN /\ Reject(thrown, HandleOrWarn(thrown))
            /\ attempted' = Mark("fail")
            /\ UNCHANGED reported
            /\ UNCHANGED <<task, site, files, gitWarnings, runs, prevFiles>>
       ELSE IF Fallback(task, site) # "manual"
       THEN /\ FallBackTo(DefaultMaxRetries)
            /\ UNCHANGED <<gitWarnings, runs, prevFiles>>
       ELSE \E w \in 0..2 : \E fe \in FsFailures : TailwindManual(w, fe)
    /\ UNCHANGED mainVars

\* ------------------------------------------------------ initializeSupabase
\* Entry of initializeSupabase up to its first await.
StartSupabase ==
    /\ Begin("initializeSupabase")
    /\ spinner' = TRUE
    /\ site' = "npx"
    /\ attempted' = <<Started("npx")>>
    /\ reported' = 0
    /\ StartExec(DefaultMaxRetries)
    /\ UNCHANGED <<files, gitWarnings, runs, prevFiles>>

initializeSupabase ==
    /\ task = "none"
    /\ StartSupabase
    /\ UNCHANGED mainVars

SupabaseReturned ==
    /\ task = "initializeSupabase"
    /\ pc = "returned"
    /\ attempted' = Mark("ok")
    /\ UNCHANGED reported
    /\ Resolve
    /\ UNCHANGED <<task, site, files, gitWarnings, runs, prevFiles>>
    /\ UNCHANGED mainVars

\* execSync('supabase init', {timeout: 120000}), tried only when the direct
\* command failed with 'context canceled'.  ok tells whether it succeeded,
\* fe is its error otherwise.
SupabaseExecSync(ok, fe) ==
    /\ reported' = WarnOnFallback(reported)
    /\ attempted' = Append(Mark("fail"),
                           [s |-> "execSync", r |-> IF ok THEN "ok" ELSE "fail"])
    /\ IF ok THEN Resolve
       ELSE IF HandleOrWarn(fe) # NoError THEN Reject(fe, HandleOrWarn(fe))
       ELSE Reject(fe, ChainFailure(task, fe))
    /\ UNCHANGED <<task, site, files, gitWarnings, runs, prevFiles>>

SupabaseThrown ==
    /\ task = "initializeSupabase"
    /\ pc = "thrown"
    /\ IF HandleOrWarn(thrown) # NoError
       THEN /\ Reject(thrown, HandleOrWarn(thrown))
            /\ attempted' = Mark("fail")
            /\ UNCHANGED reported
            /\ UNCHANGED <<task, site, files, gitWarnings, runs, prevFiles>>
       ELSE IF site = "npx"
       THEN /\ FallBackTo(DefaultMaxRetries)
            /\ UNCHANGED <<gitWarnings, runs, prevFiles>>
       ELSE IF MsgIncludes(thrown, "context canceled")
       THEN \E ok \in BOOLEAN : \E fe \in ExecSyncFailures :
               SupabaseExecSync(ok, fe)
       ELSE /\ Reject(thrown, ChainFailure(task, thrown))
            /\ attempted' = Mark("fail")
            /\ UNCHANGED reported
            /\ UNCHANGED <<task, site, files, gitWarnings, runs, prevFiles>>
    /\ UNCHANGED mainVars

\* ----------------------------------------------------- installDependencies
\* site is the strategy ("standard" or "alternative"); the r field of its
\* entry in attempted tells which of its two npm installs is awaited.
StartInstall ==
    /\ Begin("installDependencies")
    /\ spinner' = TRUE
    /\ site' = "standard"
    /\ attempted' = <<[s |-> "standard", r |-> "run1"]>>
    /\ reported' = 0
    /\ StartExec(DefaultMaxRetries)
    /\ UNCHANGED <<files, gitWarnings, runs, prevFiles>>

installDependencies ==
    /\ task = "none"
    /\ StartInstall
    /\ UNCHANGED mainVars

InstallReturned ==
    /\ task = "installDependencies"
    /\ pc = "returned"
    /\ IF attempted[Len(attempted)].r = "run1"
       THEN /\ attempted' = Mark("run2")
            /\ UNCHANGED reported
            /\ StartExec(IF site = "standard" THEN DefaultMaxRetries
                         ELSE AlternativeMaxRetries)
            /\ UNCHANGED <<result, resultError, lastFailure, handler, spinner>>
       ELSE /\ attempted' = Mark("ok")
            /\ UNCHANGED reported
            /\ Resolve
    /\ UNCHANGED <<task, site, files, gitWarnings, runs, prevFiles>>
    /\ UNCHANGED mainVars

InstallThrown ==
    /\ task = "installDependencies"
    /\ pc = "thrown"
    /\ IF HandleProcessOrNetwork(thrown) # NoError
       THEN /\ Reject(thrown, HandleProcessOrNetwork(thrown))
            /\ attempted' = Mark("fail")
            /\ UNCHANGED reported
            /\ UNCHANGED <<task, site>>
       ELSE IF site = "standard"
       THEN /\ StartExec(AlternativeMaxRetries)
            /\ site' = Fallback(task, site)
            /\ reported' = WarnOnFallback(reported)
            /\ attempted' = Append(Mark("fail"),
                                   [s |-> Fallback(task, site), r |-> "run1"])
            /\ UNCHANGED <<task, result, resultError, lastFailure, handler, spinner>>
       ELSE /\ Reject(thrown, ChainFailure(task, thrown))
            /\ attempted' = Mark("fail")
            /\ UNCHANGED reported
            /\ UNCHANGED <<task, site>>
    /\ UNCHANGED <<files, gitWarnings, runs, prevFiles>>
    /\ UNCHANGED mainVars

\* ---------------------------------------------------------- specification
Init ==
    /\ task = "none"
    /\ site = "none"
    /\ attempted = <<>>
    /\ reported = 0
    /\ result = "pending"
    /\ resultError = NoError
    /\ spinner = FALSE
    /\ files = [f \in ConfigFiles |-> Absent]
    /\ lastFailure = NoError
    /\ handler = "none"
    /\ gitWarnings = 0
    /\ runs = 0
    /\ prevFiles = [f \in ConfigFiles |-> Absent]
    /\ pc = "idle"
    /\ maxRetries = 0
    /\ retryCount = 0
    /\ lastError = NoError
    /\ thrown = NoError
    /\ procs = <<>>
    /\ timersFired = 0
    /\ sleeps = <<>>
    /\ warns = 0
    /\ orphans = 0
    /\ staleTimers = 0
    /\ run = "none"
    /\ ran = <<>>
    /\ template = [templateRepo |-> "none", isValidRepo |-> FALSE,
                   downloaded |-> "none"]
    /\ setup = "none"
    /\ exitCode = -1
    /\ deps = "unchecked"
    /\ target = "unknown"
    /\ stress = "none"
    /\ inst = [i \in Instances |-> "new"]
    /\ holder = -1
    /\ endedBy = [i \in Instances |-> -1]
    /\ successCount = 0
    /\ failureCount = 0
    /\ removed = FALSE

Next ==
    \/ executeWithRetry
    \/ initializeTailwind
    \/ initializeTailwindAgain
    \/ TailwindReturned
    \/ TailwindThrown
    \/ initializeSupabase
    \/ SupabaseReturned
    \/ SupabaseThrown
    \/ installDependencies
    \/ InstallReturned
    \/ InstallThrown
    \/ ProcessSucceeds
    \/ ProcessFails
    \/ AttemptTimesOut
    \/ BackoffElapsed
    \/ LateTimerFires
    \/ AbandonedProcessExits

Spec == Init /\ [][Next]_vars

\* One executeWithRetry call on its own, with the scheduling Node.js
\* guarantees: an armed timer fires, so the race an attempt awaits settles
\* (its child ends or its deadline expires) and a backoff sleep ends.
\* Nothing is assumed about a child whose attempt is over.
NextExec ==
    \/ executeWithRetry
    \/ ProcessSucceeds
    \/ ProcessFails
    \/ AttemptTimesOut
    \/ BackoffElapsed
    \/ LateTimerFires
    \/ AbandonedProcessExits

RaceSettles == ProcessSucceeds \/ ProcessFails \/ AttemptTimesOut

SpecExec ==
    /\ Init
    /\ [][NextExec]_vars
    /\ WF_vars(RaceSettles)
    /\ WF_vars(BackoffElapsed)

\* ---------------------------------------------------------------- index.js
\* maxRetries passed by runCreateNextApp and by runInitScript.
ScriptMaxRetries == 2

\* The tasks of initialize, in the order of its await statements.
InitializeOrder ==
    << "runCreateNextApp", "template", "initializeSupabase",
       "installDependencies", "initializeTailwind", "configureEnvironment",
       "runInitScript", "initializeGit" >>

\* Rejections of downloadTemplate: an unparsable URL, network failures and
\* HTTP failures of the tarball download.
DownloadFailures ==
    {Err("Invalid GitHub repository URL", "none", "none"),
     Err("Failed to download", "none", "none")}
    \cup {Err("syscall", c, "none") : c \in {"ENOTFOUND", "ETIMEDOUT"}}

\* `await task(...)`: the statements after it run only if the task resolved;
\* a rejection goes to the catch block.
ContinuesAnyway(res) == res # "pending"

Continues(res) == res = "resolved"

\* Task t of a run has settled and initialize goes on to the next statement.
Completed(t) ==
    /\ run = "running"
    /\ task = t
    /\ pc = "idle"
    /\ Continues(result)

\* initialize reaches the await of task t.
BeginNext(t) ==
    /\ task' = t
    /\ ran' = Append(ran, t)
    /\ UNCHANGED <<run, setup, exitCode>>

\* A task resolves without having awaited a command.
Done ==
    /\ result' = "resolved"
    /\ resultError' = NoError
    /\ lastFailure' = NoError
    /\ handler' = "none"

\* A task outside the chains rejects with the error it caught: its handler
\* is one lib/error-handler.js exports, or raises instead.
Throw(name, error) ==
    /\ spinner' = FALSE
    /\ result' = "rejected"
    /\ resultError' = IF CallHandler(name, error) # NoError
                      THEN CallHandler(name, error) ELSE error
    /\ lastFailure' = error
    /\ handler' = name
    /\ pc' = "idle"

\* process.exit(code) of main once initialize has settled with outcome.
ExitCodeAlwaysZero(outcome) == 0

ExitCode(outcome) == IF outcome = "resolved" THEN 0 ELSE 1

\* if (!options.skipDependencyCheck) { ... if (!result.success) exit(1) }
ProceedsAlways(dep) == TRUE

Proceeds(dep) == dep \in {"skipped", "passed"}

\* What main does to the target directory: dir is "absent", or the answer
\* to the overwrite prompt when it exists ("undeletable": the user confirmed
\* and fs.remove threw).
TargetAfter(dir) ==
    CASE dir = "absent" -> "absent"
      [] dir = "declined" -> "kept"
      [] dir = "overwrite" -> "removed"
      [] dir = "undeletable" -> "undeletable"

\* main up to the await of initialize, and initialize up to the first await
\* of runCreateNextApp.  dep is the result of the dependency check ("skipped"
\* with --skip-dependency-check), dir the state of the target directory and
\* the user's answer to the overwrite prompt ("undeletable": fs.remove
\* throws, which the catch block of main turns into exit code 1).  After a
\* failed dependency check main exits before it looks at the directory.
main ==
    /\ task = "none"
    /\ run = "none"
    /\ \E dep \in {"skipped", "passed", "missing"} :
       \E dir \in {"absent", "overwrite", "declined", "undeletable"} :
         /\ deps' = IF dep = "missing" THEN "missing" ELSE "ok"
         /\ target' = IF ~Proceeds(dep)
                      THEN (IF dir = "absent" THEN "absent" ELSE "kept")
                      ELSE TargetAfter(dir)
         /\ IF ~Proceeds(dep) \/ dir \in {"declined", "undeletable"}
            THEN /\ run' = "aborted"
                 /\ exitCode' = 1
                 /\ UNCHANGED <<task, site, attempted, reported, result,
                                resultError, spinner, lastFailure, handler,
                                ran, template, stressVars, setup>>
                 /\ UNCHANGED execVars
                 /\ UNCHANGED <<orphans, staleTimers>>
            ELSE /\ run' = "running"
                 /\ Begin("runCreateNextApp")
                 /\ ran' = <<"runCreateNextApp">>
                 /\ spinner' = TRUE
                 /\ site' = "npx"
                 /\ attempted' = <<Started("npx")>>
                 /\ reported' = 0
                 /\ StartExec(ScriptMaxRetries)
                 /\ UNCHANGED <<template, stressVars, setup, exitCode>>
    /\ UNCHANGED <<files, gitWarnings, runs, prevFiles>>

\* create-next-app exited with code 0: the project directory is there.
CreateNextAppReturned ==
    /\ task = "runCreateNextApp"
    /\ pc = "returned"
    /\ attempted' = Mark("ok")
    /\ UNCHANGED reported
    /\ Resolve
    /\ target' = "created"
    /\ UNCHANGED <<task, site, files, gitWarnings, runs, prevFiles>>
    /\ UNCHANGED <<run, ran, template, stressVars, deps, setup, exitCode>>

CreateNextAppThrown ==
    /\ task = "runCreateNextApp"
    /\ pc = "thrown"
    /\ attempted' = Mark("fail")
    /\ UNCHANGED reported
    /\ Reject(thrown, thrown)
    /\ UNCHANGED <<task, site, files, gitWarnings, runs, prevFiles>>
    /\ UNCHANGED mainVars

\* const defaultTemplateRepo of initialize: also the default value of the
\* --template-repo option of index.js.
defaultTemplateRepo == "https://github.com/JonasWIP/supanexttemplate"

\* Values of options.templateRepo: the default, another GitHub repository
\* and a URL that is not a GitHub URL.
TemplateRepos ==
    {defaultTemplateRepo, "https://github.com/acme/starter",
     "https://example.com/starter"}

\* repoUrl.match(/github\.com\/([^/]+)\/([^/]+)/)
repoMatch(repoUrl) == repoUrl # "https://example.com/starter"

\* validateRepositoryUrl(repoUrl), where api tells whether the request to
\* api.github.com/repos/owner/repo fulfils: every failure is caught and
\* answered with false.
validateRepositoryUrl(repoUrl, api) ==
    IF ~repoMatch(repoUrl) THEN FALSE ELSE api

\* The repository initialize hands to downloadTemplate.
RepoToDownloadAsRequested(templateRepo, isValidRepo) == templateRepo

RepoToDownload(templateRepo, isValidRepo) ==
    IF isValidRepo THEN templateRepo ELSE defaultTemplateRepo

\* validateRepositoryUrl answers; the requested or the default repository
\* is handed to downloadTemplate, which starts its spinner.
ValidateTemplate ==
    /\ Completed("runCreateNextApp")
    /\ BeginNext("template")
    /\ Pending
    /\ \E templateRepo \in TemplateRepos : \E api \in BOOLEAN :
         template' =
           [templateRepo |-> templateRepo,
            isValidRepo |-> validateRepositoryUrl(templateRepo, api),
            downloaded |->
              RepoToDownload(templateRepo,
                             validateRepositoryUrl(templateRepo, api))]
    /\ UNCHANGED <<stressVars, deps, target>>
    /\ spinner' = TRUE
    /\ site' = "download"
    /\ attempted' = <<Started("download")>>
    /\ reported' = 0
    /\ UNCHANGED <<files, gitWarnings, runs, prevFiles>>
    /\ UNCHANGED execVars
    /\ UNCHANGED <<orphans, staleTimers>>

\* downloadTemplate and copyTemplateFiles settle.
TemplateSettles ==
    /\ UNCHANGED reported
    /\ run = "running"
    /\ task = "template"
    /\ result = "pending"
    /\ \/ /\ attempted' = <<[s |-> "download", r |-> "ok"],
                            [s |-> "copy", r |-> "ok"]>>
          /\ spinner' = FALSE
          /\ result' = "resolved"
          /\ UNCHANGED <<resultError, lastFailure, handler, pc>>
       \/ \E e \in DownloadFailures :
            /\ attempted' = Mark("fail")
            /\ Throw(IF IsNetworkError(e) \/ e.code = "ETIMEDOUT"
                     THEN "handleNetworkError" ELSE "handleError", e)
       \/ \E e \in FsFailures :
            /\ attempted' = <<[s |-> "download", r |-> "ok"],
                              [s |-> "copy", r |-> "fail"]>>
            /\ Throw("handleFileSystemError", e)
    /\ UNCHANGED <<task, site, files, gitWarnings, runs, prevFiles>>
    /\ UNCHANGED <<maxRetries, retryCount, lastError, thrown, procs,
                   timersFired, sleeps, warns, orphans, staleTimers>>
    /\ UNCHANGED mainVars

RunSupabase ==
    /\ Completed("template")
    /\ StartSupabase
    /\ ran' = Append(ran, "initializeSupabase")
    /\ UNCHANGED <<run, template, stressVars, deps, target, setup, exitCode>>

RunInstall ==
    /\ Completed("initializeSupabase")
    /\ StartInstall
    /\ ran' = Append(ran, "installDependencies")
    /\ UNCHANGED <<run, template, stressVars, deps, target, setup, exitCode>>

RunTailwind ==
    /\ Completed("installDependencies")
    /\ StartTailwind
    /\ ran' = Append(ran, "initializeTailwind")
    /\ UNCHANGED <<run, template, stressVars, deps, target, setup, exitCode>>

\* configureEnvironment: copy .env.local.example to .env.local if it exists.
configureEnvironment ==
    /\ Completed("initializeTailwind")
    /\ BeginNext("configureEnvironment")
    /\ site' = "copy"
    /\ \/ /\ attempted' = <<[s |-> "copy", r |-> "ok"]>>
          /\ reported' = 0
          /\ spinner' = FALSE
          /\ Done
          /\ UNCHANGED pc
       \/ \E e \in FsFailures :
            /\ attempted' = <<[s |-> "copy", r |-> "fail"]>>
            /\ reported' = 0
            /\ Throw("handleFileSystemError", e)
    /\ UNCHANGED <<files, gitWarnings, runs, prevFiles, template, stressVars, deps, target>>
    /\ UNCHANGED <<maxRetries, retryCount, lastError, thrown, procs,
                   timersFired, sleeps, warns, orphans, staleTimers>>

\* The dispatch of the catch block of runInitScript.
RouteWithFileSystem(e) ==
    IF IsProcessError(e) THEN "handleProcessError"
    ELSE IF IsNetworkError(e) THEN "handleNetworkError"
    ELSE IF e.code \in {"ENOENT", "EACCES", "EEXIST"}
    THEN "handleFileSystemError"
    ELSE "handleError"

DispatchWithFileSystem(e) == CallHandler(RouteWithFileSystem(e), e)

\* runInitScript up to its first await of executeWithRetry: without a
\* script it resolves at once; fs.chmod on the script may fail.
runInitScript ==
    /\ Completed("configureEnvironment")
    /\ BeginNext("runInitScript")
    /\ site' = "script"
    /\ \/ /\ attempted' = <<>>
          /\ reported' = 0
          /\ Done
          /\ UNCHANGED spinner
          /\ UNCHANGED execVars
          /\ UNCHANGED <<orphans, staleTimers>>
       \/ \E e \in FsFailures :
            /\ attempted' = <<[s |-> "chmod", r |-> "fail"]>>
            /\ reported' = 0
            /\ Throw(RouteWithFileSystem(e), e)
            /\ UNCHANGED <<maxRetries, retryCount, lastError, thrown, procs,
                           timersFired, sleeps, warns, orphans, staleTimers>>
       \/ /\ attempted' = <<Started("script")>>
          /\ reported' = 0
          /\ spinner' = TRUE
          /\ StartExec(ScriptMaxRetries)
          /\ Pending
    /\ UNCHANGED <<files, gitWarnings, runs, prevFiles, template, stressVars, deps, target>>

InitScriptReturned ==
    /\ task = "runInitScript"
    /\ pc = "returned"
    /\ attempted' = Mark("ok")
    /\ UNCHANGED reported
    /\ Resolve
    /\ UNCHANGED <<task, site, files, gitWarnings, runs, prevFiles>>
    /\ UNCHANGED mainVars

InitScriptThrown ==
    /\ task = "runInitScript"
    /\ pc = "thrown"
    /\ attempted' = Mark("fail")
    /\ UNCHANGED reported
    /\ Throw(RouteWithFileSystem(thrown), thrown)
    /\ UNCHANGED <<task, site, files, gitWarnings, runs, prevFiles>>
    /\ UNCHANGED <<maxRetries, retryCount, lastError, thrown, procs,
                   timersFired, sleeps, warns, orphans, staleTimers>>
    /\ UNCHANGED mainVars

\* How initializeGit settles after a git command failed with error: the
\* catch block logs and does not throw.
GitSettlesRethrow(error) == "rejected"

GitSettles(error) == "resolved"

\* The git commands of initializeGit, in order.
NextGitCommand(c) == IF c = "init" THEN "add" ELSE "commit"

\* initializeGit up to its first await: `git --version` decides whether git
\* is installed; without it the function warns and returns.
initializeGit ==
    /\ Completed("runInitScript")
    /\ BeginNext("initializeGit")
    /\ spinner' = TRUE
    /\ \E installed \in BOOLEAN :
         IF installed
         THEN /\ site' = "init"
              /\ attempted' = <<Started("init")>>
              /\ reported' = 0
              /\ StartExec(DefaultMaxRetries)
              /\ Pending
              /\ UNCHANGED gitWarnings
         ELSE /\ site' = "version"
              /\ attempted' = <<[s |-> "version", r |-> "fail"]>>
              /\ reported' = 0
              /\ gitWarnings' = gitWarnings + 1
              /\ Done
              /\ UNCHANGED execVars
              /\ UNCHANGED <<orphans, staleTimers>>
    /\ UNCHANGED <<files, runs, prevFiles, template, stressVars, deps, target>>

GitReturned ==
    /\ task = "initializeGit"
    /\ pc = "returned"
    /\ IF site = "commit"
       THEN /\ attempted' = Mark("ok")
            /\ UNCHANGED reported
            /\ Resolve
            /\ UNCHANGED site
       ELSE /\ site' = NextGitCommand(site)
            /\ attempted' = Append(Mark("ok"), Started(NextGitCommand(site)))
            /\ UNCHANGED reported
            /\ StartExec(DefaultMaxRetries)
            /\ UNCHANGED <<result, resultError, lastFailure, handler, spinner>>
    /\ UNCHANGED <<task, files, gitWarnings, runs, prevFiles>>
    /\ UNCHANGED mainVars

GitThrown ==
    /\ task = "initializeGit"
    /\ pc = "thrown"
    /\ attempted' = Mark("fail")
    /\ UNCHANGED reported
    /\ spinner' = FALSE
    /\ gitWarnings' = gitWarnings + 2
    /\ result' = GitSettles(thrown)
    /\ resultError' = IF GitSettles(thrown) = "rejected" THEN thrown
                      ELSE NoError
    /\ lastFailure' = thrown
    /\ handler' = "none"
    /\ pc' = "idle"
    /\ UNCHANGED <<task, site, files, runs, prevFiles>>
    /\ UNCHANGED <<maxRetries, retryCount, lastError, thrown, procs,
                   timersFired, sleeps, warns, orphans, staleTimers>>
    /\ UNCHANGED mainVars

\* initialize resolves; main spawns `npm run setup`.
InitializeResolves ==
    /\ Completed("initializeGit")
    /\ run' = "resolved"
    /\ setup' = "running"
    /\ UNCHANGED <<task, site, attempted, reported, result, resultError, spinner,
                   files, lastFailure, handler, gitWarnings, runs, prevFiles,
                   ran, template, stressVars, deps, target, exitCode>>
    /\ UNCHANGED execVars
    /\ UNCHANGED <<orphans, staleTimers>>

\* A task rejected: the catch block of initialize logs and rethrows, the
\* catch block of main reports the error and exits.
InitializeRejects ==
    /\ run = "running"
    /\ pc = "idle"
    /\ result = "rejected"
    /\ run' = "rejected"
    /\ exitCode' = ExitCode("rejected")
    /\ UNCHANGED <<task, site, attempted, reported, result, resultError, spinner,
                   files, lastFailure, handler, gitWarnings, runs, prevFiles,
                   ran, template, stressVars, deps, target, setup>>
    /\ UNCHANGED execVars
    /\ UNCHANGED <<orphans, staleTimers>>

\* What main goes on with once the setup script has settled: its catch
\* block reports the failure, warns and does not throw, so the success
\* message and process.exit(0) follow as after a successful script.
AfterSetupRethrow(code, outcome) ==
    IF code = "ok" THEN outcome ELSE "rejected"

AfterSetup(code, outcome) == outcome

\* The child closes with code 0 ("ok"), with another code ("failed"), or
\* emits 'error' because it could not be spawned ("unspawned").
SetupSettles ==
    /\ setup = "running"
    /\ \E code \in {"ok", "failed", "unspawned"} :
         /\ setup' = code
         /\ exitCode' = ExitCode(AfterSetup(code, run))
    /\ UNCHANGED <<task, site, attempted, reported, result, resultError, spinner,
                   files, lastFailure, handler, gitWarnings, runs, prevFiles,
                   run, ran, template, stressVars, deps, target>>
    /\ UNCHANGED execVars
    /\ UNCHANGED <<orphans, staleTimers>>

NextMain ==
    \/ main
    \/ CreateNextAppReturned
    \/ CreateNextAppThrown
    \/ ValidateTemplate
    \/ TemplateSettles
    \/ RunSupabase
    \/ SupabaseReturned
    \/ SupabaseThrown
    \/ RunInstall
    \/ InstallReturned
    \/ InstallThrown
    \/ RunTailwind
    \/ TailwindReturned
    \/ TailwindThrown
    \/ configureEnvironment
    \/ runInitScript
    \/ InitScriptReturned
    \/ InitScriptThrown
    \/ initializeGit
    \/ GitReturned
    \/ GitThrown
    \/ InitializeResolves
    \/ InitializeRejects
    \/ SetupSettles
    \/ ProcessSucceeds
    \/ ProcessFails
    \/ AttemptTimesOut
    \/ BackoffElapsed
    \/ LateTimerFires
    \/ AbandonedProcessExits

SpecMain == Init /\ [][NextMain]_vars

\* --------------------------------------------------- termination signals
\* Neither index.js nor the modules it loads register a listener for SIGINT
\* or SIGTERM, so the signal ends the process: no continuation of main runs
\* any more, and the shell sees 128 + the number of the signal.  Nothing in
\* the tool signals the child it awaits or waits for it to end: whether the
\* child ends along with the tool is up to the terminal's process group
\* and to the child itself.
Interrupt ==
    /\ run = "running"
    /\ exitCode = -1
    /\ run' = "interrupted"
    /\ \E sig \in {"SIGINT", "SIGTERM"} :
         exitCode' = IF sig = "SIGINT" THEN 130 ELSE 143
    /\ pc' = "idle"
    /\ \E ended \in BOOLEAN :
         procs' = IF ended /\ pc = "await"
                  THEN [procs EXCEPT ![Current] = "gone"]
                  ELSE procs
    /\ UNCHANGED <<maxRetries, retryCount, lastError, thrown, timersFired,
                   sleeps, warns, orphans, staleTimers>>
    /\ UNCHANGED <<task, site, attempted, reported, result, resultError, spinner,
                   files, lastFailure, handler, gitWarnings, runs, prevFiles,
                   ran, template, stressVars, deps, target, setup>>

\* main while runCreateNextApp is in progress, with the signals.
NextInterrupt ==
    \/ main
    \/ CreateNextAppReturned
    \/ CreateNextAppThrown
    \/ InitializeRejects
    \/ Interrupt
    \/ ProcessSucceeds
    \/ ProcessFails
    \/ AttemptTimesOut
    \/ BackoffElapsed
    \/ LateTimerFires
    \/ AbandonedProcessExits

SpecInterrupt == Init /\ [][NextInterrupt]_vars

\* ---------------------------------------------- test-supabase-stress.js
\* What the stress test leaves alone: the state of the command-line tool.
toolVars == <<task, site, attempted, reported, result, resultError, files,
              lastFailure, handler, gitWarnings, runs, prevFiles,
              run, ran, template, setup, deps, target,
              pc, maxRetries, retryCount, lastError, thrown, procs,
              timersFired, sleeps, warns, orphans, staleTimers>>

\* logger.startSpinner called by instance i, on the module variable spinner:
\* a spinner that is there is stopped, whoever started it.
LoggerStart(h, e, i) ==
    [holder |-> i,
     endedBy |-> IF h = -1 THEN [e EXCEPT ![i] = -1]
                 ELSE [e EXCEPT ![h] = i, ![i] = IF h = i THEN i ELSE -1]]

\* logger.succeedSpinner / failSpinner called by instance i: the spinner the
\* module holds, if any, is ended and the variable set to null.
LoggerEnd(h, e, i) ==
    [holder |-> -1,
     endedBy |-> IF h = -1 THEN e ELSE [e EXCEPT ![h] = i]]

\* The synchronous starts of all instances by testDirs.map, in index order:
\* each runs up to the await of its random delay.
RECURSIVE StartAll(_, _, _)
StartAll(h, e, i) ==
    IF i = numInstances THEN [holder |-> h, endedBy |-> e]
    ELSE StartAll(LoggerStart(h, e, i).holder, LoggerStart(h, e, i).endedBy,
                  i + 1)

Settled(i) == inst[i] \in {"fulfilled", "rejected"}

\* Promise.allSettled(promises) resolves once every promise has settled.
FirstSettled == \E i \in Instances : Settled(i)

AllSettled == \A i \in Instances : Settled(i)

\* runStressTest up to the await of Promise.allSettled.  The directories
\* are created first; if that throws, the catch block exits with code 1.
runStressTest ==
    /\ stress = "none"
    /\ task = "none"
    /\ \E created \in BOOLEAN :
         IF created
         THEN /\ stress' = "running"
              /\ inst' = [i \in Instances |-> "delay"]
              /\ holder' = StartAll(holder, endedBy, 0).holder
              /\ endedBy' = StartAll(holder, endedBy, 0).endedBy
              /\ spinner' = TRUE
              /\ UNCHANGED exitCode
         ELSE /\ stress' = "failed"
              /\ exitCode' = 1
              /\ UNCHANGED <<inst, holder, endedBy, spinner>>
    /\ UNCHANGED <<successCount, failureCount, removed>>
    /\ UNCHANGED toolVars

\* The random delay of instance i is over: its first executeWithRetry call
\* (npx supabase init, 2 retries, 5 s) begins.
StressDelayElapsed(i) ==
    /\ stress = "running"
    /\ inst[i] = "delay"
    /\ inst' = [inst EXCEPT ![i] = "npx"]
    /\ UNCHANGED <<stress, holder, endedBy, spinner, exitCode,
                   successCount, failureCount, removed>>
    /\ UNCHANGED toolVars

\* The executeWithRetry call instance i awaits returns.
StressCallReturns(i) ==
    /\ stress = "running"
    /\ inst[i] \in {"npx", "direct"}
    /\ inst' = [inst EXCEPT ![i] = "fulfilled"]
    /\ holder' = LoggerEnd(holder, endedBy, i).holder
    /\ endedBy' = LoggerEnd(holder, endedBy, i).endedBy
    /\ spinner' = FALSE
    /\ UNCHANGED <<stress, exitCode, successCount, failureCount, removed>>
    /\ UNCHANGED toolVars

\* The executeWithRetry call instance i awaits throws e.  A process error is
\* handed to the missing handleProcessError; another failure of the npx
\* command leads to the direct command, of the direct command to
\* `throw new Error(...)`.  The outer catch block fails the spinner.
StressCallThrows(i, e) ==
    /\ stress = "running"
    /\ inst[i] \in {"npx", "direct"}
    /\ IF HandleOrWarn(e) = NoError /\ inst[i] = "npx"
       THEN /\ inst' = [inst EXCEPT ![i] = "direct"]
            /\ UNCHANGED <<holder, endedBy, spinner>>
       ELSE /\ inst' = [inst EXCEPT ![i] = "rejected"]
            /\ holder' = LoggerEnd(holder, endedBy, i).holder
            /\ endedBy' = LoggerEnd(holder, endedBy, i).endedBy
            /\ spinner' = FALSE
    /\ UNCHANGED <<stress, exitCode, successCount, failureCount, removed>>
    /\ UNCHANGED toolVars

\* One step of instance i.
InstanceStep(i) ==
    \/ StressDelayElapsed(i)
    \/ StressCallReturns(i)
    \/ \E e \in ProcFailures \cup {TimeoutError} : StressCallThrows(i, e)

\* Promise.allSettled has resolved: the results are counted, the report is
\* printed and the test directories are removed.  If fs.remove throws, the
\* catch block exits with code 1.
StressAnalysed ==
    /\ stress = "running"
    /\ AllSettled
    /\ successCount' = Cardinality({i \in Instances : inst[i] = "fulfilled"})
    /\ failureCount' = Cardinality({i \in Instances : inst[i] = "rejected"})
    /\ \E cleaned \in BOOLEAN :
         /\ removed' = cleaned
         /\ stress' = IF cleaned THEN "done" ELSE "failed"
         /\ exitCode' = IF cleaned THEN exitCode ELSE 1
    /\ UNCHANGED <<inst, holder, endedBy, spinner>>
    /\ UNCHANGED toolVars

StressDelay == \E i \in Instances : StressDelayElapsed(i)

StressReturns == \E i \in Instances : StressCallReturns(i)

StressThrows ==
    \E i \in Instances : \E e \in ProcFailures \cup {TimeoutError} :
        StressCallThrows(i, e)

NextStress ==
    \/ runStressTest
    \/ StressDelay
    \/ StressReturns
    \/ StressThrows
    \/ StressAnalysed

SpecStress == Init /\ [][NextStress]_vars

\* ------------------------------------------------------------------ claims
\* The failure kinds as the specification's data model and glossary name them.
\* Transient: timeout, cancellation, deadline exceeded, connection reset.
GlossaryTransient(e) ==
    \/ e.msg \in {"timed out", "context canceled"}
    \/ e.code \in {"ETIMEDOUT", "ECONNRESET"}

\* Transient also lists termination by a signal.
KindTransient(e) == GlossaryTransient(e) \/ e.signal # "none"

\* Network: DNS failure, connection refused, connection reset.
KindNetwork(e) == e.code \in {"ENOTFOUND", "ECONNREFUSED", "ECONNRESET"}

\* Filesystem or Generic: neither of the above.
KindNotRetryable(e) ==
    /\ e # NoError
    /\ ~KindTransient(e)
    /\ ~KindNetwork(e)

\* A call of executeWithRetry is over.
CallOver == pc \in {"returned", "thrown"}

NoAttemptSucceeded == \A i \in 1..Len(procs) : procs[i] # "ok"

C2_NonRetryableFailsAfterOneAttempt ==
    (Len(procs) = 1 /\ procs[1] = "failed" /\ KindNotRetryable(lastError))
       => /\ pc \in {"thrown", "idle"}
          /\ thrown = lastError
          /\ sleeps = <<>>
          /\ warns = 0
          /\ retryCount = 0

C2_Witness ==
    /\ task = "executeWithRetry"
    /\ pc = "thrown"
    /\ maxRetries >= 1
    /\ Len(procs) = 1
    /\ thrown.code = "ENOENT"

\* C3: a failure of kind Transient or Network is thrown to the caller only
\* when no retry remains (otherwise it is retried); this is to hold for
\* termination by a signal and for ENOTFOUND as for the other members.
C3_EveryTransientOrNetworkFailureRetried ==
    (pc = "thrown" /\ (KindTransient(thrown) \/ KindNetwork(thrown)))
       => retryCount = maxRetries

\* C4: when a call of executeWithRetry is over, none of the processes it
\* spawned is still running.
C4_NoProcessRunningAfterReturn ==
    CallOver => Running(procs) = 0

\* C5: at most one process of a call of executeWithRetry runs at any time.
C5_AtMostOneProcessInFlight ==
    Running(procs) <= 1

\* C6: an attempt whose deadline timer fires while its child still runs ends
\* with the timed-out failure, which is transient: the call sleeps and
\* retries if retries remain, and otherwise throws the timed-out failure.
C6_TimedOutAttemptIsTransient ==
    (pc \in {"backoff", "thrown"} /\ procs[Current] = "running")
       => /\ lastError = TimeoutError
          /\ GlossaryTransient(lastError)
          /\ (retryCount < maxRetries => pc = "backoff")
          /\ (retryCount >= maxRetries
                => pc = "thrown" /\ thrown = TimeoutError)

C6_Witness ==
    /\ pc = "thrown"
    /\ thrown = TimeoutError
    /\ retryCount = maxRetries
    /\ retryCount >= 1
    /\ procs[Current] = "running"

\* The delays of the claim, in ms: 1s, 2s, 4s, 8s, then the cap of 10s.
ExpectedDelay(i) ==
    IF i = 0 THEN 1000 ELSE IF i = 1 THEN 2000 ELSE IF i = 2 THEN 4000
    ELSE IF i = 3 THEN 8000 ELSE 10000

\* C7: the k-th sleep of a call (after attempt k-1, counted from 0) lasts
\* min(10 s, 1 s * 2^(k-1)); the delays of a call never decrease and never
\* exceed 10 s; there is one sleep per retry.
C7_BackoffDelays ==
    /\ \A k \in 1..Len(sleeps) :
          /\ sleeps[k] = ExpectedDelay(k - 1)
          /\ sleeps[k] <= 10000
          /\ k > 1 => sleeps[k - 1] <= sleeps[k]
    /\ Len(sleeps) = (IF pc = "backoff" THEN retryCount + 1 ELSE retryCount)

C7_Witness ==
    /\ Len(sleeps) >= 5
    /\ sleeps[5] = 10000
    /\ pc = "await"

C9_FinalFailurePropagatedAtOnce ==
    /\ [](pc = "thrown" =>
            /\ thrown = lastError
            /\ thrown # NoError
            /\ Len(procs) = retryCount + 1
            /\ Len(sleeps) = retryCount
            /\ procs[Current] \in {"failed", "running", "gone"})
    /\ [][(pc = "thrown" /\ task = "executeWithRetry")
             => /\ pc' = "thrown"
                /\ Len(procs') = Len(procs)
                /\ sleeps' = sleeps
                /\ thrown' = thrown]_vars

C9_Witness ==
    /\ task = "executeWithRetry"
    /\ pc = "thrown"
    /\ retryCount >= 1
    /\ retryCount < maxRetries
    /\ thrown.code = "EACCES"

\* The order of the strategies of each chain.
ChainOrder(t) ==
    IF t = "initializeTailwind" THEN <<"npx", "direct", "local", "manual">>
    ELSE IF t = "initializeSupabase" THEN <<"npx", "direct", "execSync">>
    ELSE IF t = "installDependencies" THEN <<"standard", "alternative">>
    ELSE <<>>

\* C10: the strategies of a chain are attempted in the chain's order, each
\* after the failure of the one before; a strategy that succeeds is the last
\* one attempted and the chain resolves.
C10_StrategiesInOrderStopAtSuccess ==
    /\ Len(attempted) <= Len(ChainOrder(task))
    /\ \A i \in 1..Len(attempted) :
          /\ attempted[i].s = ChainOrder(task)[i]
          /\ i < Len(attempted) => attempted[i].r = "fail"
          /\ attempted[i].r = "ok"
                => /\ i = Len(attempted)
                   /\ result = "resolved"
                   /\ pc = "idle"

C10_Witness ==
    /\ task = "initializeTailwind"
    /\ Len(attempted) = 3
    /\ attempted[3].s = "local"
    /\ attempted[3].r = "ok"
    /\ result = "resolved"

\* The tasks built as a chain of strategies.
ChainTasks == {"initializeTailwind", "initializeSupabase",
               "installDependencies"}

LastAttempted == attempted[Len(attempted)]

\* C11: a chain gives up only after its last strategy: whenever a strategy
\* fails and is not the last of its chain, the next one is attempted,
\* whatever the kind of the failure.
C11_ChainAdvancesOnAnyFailure ==
    (task \in ChainTasks /\ result = "rejected")
        => Len(attempted) = Len(ChainOrder(task))

\* C12: initializeTailwind rejects only if the manual creation of the files
\* was reached and failed; failing process strategies alone leave it
\* resolved with both files in place.
C12_FailingProcessStrategiesEndInSynthesis ==
    (task = "initializeTailwind" /\ result = "rejected")
        => LastAttempted.s = "manual"

\* Every strategy the code reaches has failed and the chain rejected.
ChainExhausted ==
    /\ task \in ChainTasks
    /\ result = "rejected"
    /\ task = "initializeTailwind" => LastAttempted.s = "manual"
    /\ task = "initializeSupabase" => LastAttempted.s \in {"direct", "execSync"}
    /\ task = "installDependencies" => LastAttempted.s = "alternative"

\* C13 as stated: the caller of an exhausted chain receives the message and
\* the code of the last strategy's failure.
C13_LastFailurePreserved ==
    ChainExhausted
        => /\ resultError.msg = lastFailure.msg
           /\ resultError.code = lastFailure.code

\* C13 amended: installDependencies rejects with the last strategy's failure
\* itself; initializeSupabase and initializeTailwind reject with a new Error
\* of a fixed message that carries nothing of the last failure; no chain
\* adds a count of strategies.  When the last failure is a process error the
\* call of the missing handleProcessError replaces all of these by its
\* TypeError.
C13_ExhaustedChainRejection ==
    ChainExhausted
        => resultError =
             IF IsProcessError(lastFailure) THEN NotAFunction
             ELSE IF task = "initializeTailwind" THEN TailwindFailed
             ELSE IF task = "initializeSupabase" THEN SupabaseFailed
             ELSE lastFailure

C13_Witness ==
    /\ task = "initializeSupabase"
    /\ result = "rejected"
    /\ LastAttempted.s = "direct"
    /\ lastFailure = Err("syscall", "ENOENT", "none")
    /\ resultError = SupabaseFailed

\* The manual strategy of initializeTailwind was the last one and returned.
SynthesisSucceeded ==
    /\ task = "initializeTailwind"
    /\ result = "resolved"
    /\ LastAttempted = [s |-> "manual", r |-> "ok"]

\* The line of a content array for the files below directory d.
GlobLine(d) == "    \"./" \o d \o "/**/*.{js,ts,jsx,tsx,mdx}\","

\* C14: after the manual strategy, tailwind.config.js declares the content
\* globs of app, pages and components with extensions js, ts, jsx, tsx, mdx,
\* an empty theme.extend and an empty plugins list, and postcss.config.js a
\* plugins object with exactly tailwindcss: {} and autoprefixer: {}; whatever
\* failures came before.
C14_SynthesisedContent ==
    SynthesisSucceeded
        => LET tw == files["tailwind.config.js"].text
               pc2 == files["postcss.config.js"].text
           IN /\ SubSeq(tw, 2, 12) =
                   << "module.exports = {",
                      "  content: [",
                      GlobLine("app"),
                      GlobLine("pages"),
                      GlobLine("components"),
                      "  ],",
                      "  theme: {",
                      "    extend: {},",
                      "  },",
                      "  plugins: [],",
                      "}" >>
              /\ Len(tw) = 12
              /\ pc2 = << "module.exports = {",
                          "  plugins: {",
                          "    tailwindcss: {},",
                          "    autoprefixer: {},",
                          "  },",
                          "}" >>

C14_Witness ==
    /\ SynthesisSucceeded
    /\ runs = 1
    /\ attempted[1].r = "fail"
    /\ files["tailwind.config.js"].text[4] = GlobLine("app")

\* C15: when the manual strategy runs again on a directory in which it
\* created the files before, it succeeds and both files hold exactly what
\* they held after the first run.
C15_SynthesisIdempotent ==
    (task = "initializeTailwind" /\ runs = 2 /\ Len(attempted) = 4)
        => /\ LastAttempted.r = "ok"
              => /\ result = "resolved"
                 /\ files = prevFiles
           /\ \A f \in ConfigFiles :
                 files[f] \in {prevFiles[f],
                               [exists |-> TRUE, text |-> ManualContent(f)]}

C15_Witness ==
    /\ SynthesisSucceeded
    /\ runs = 2
    /\ \A f \in ConfigFiles : prevFiles[f].exists
    /\ files = prevFiles

\* C16: when a write of the manual strategy fails, no strategy follows and
\* initializeTailwind rejects.
C16_FailedWriteRejects ==
    (/\ task = "initializeTailwind"
     /\ Len(attempted) = 4
     /\ \E f \in ConfigFiles : files[f].text # ManualContent(f))
        => /\ LastAttempted = [s |-> "manual", r |-> "fail"]
           /\ result = "rejected"

C16_Witness ==
    /\ task = "initializeTailwind"
    /\ LastAttempted = [s |-> "manual", r |-> "fail"]
    /\ files["tailwind.config.js"].exists
    /\ ~files["postcss.config.js"].exists
    /\ lastFailure.code = "ENOSPC"
    /\ result = "rejected"

\* The first executeWithRetry call of a task of the run is in progress:
\* every child counted by orphans was started by an earlier task.
FirstCallOfTask ==
    /\ run = "running"
    /\ Len(ran) >= 2
    /\ pc # "idle"
    /\ Len(attempted) = 1
    /\ attempted[1].r \in {"run", "run1"}

\* C17: initialize starts its tasks in the order of InitializeOrder, and
\* while a task runs no child process started by an earlier task is alive.
C17_TasksInOrderNoLeftoverWork ==
    /\ Len(ran) <= Len(InitializeOrder)
    /\ \A i \in 1..Len(ran) : ran[i] = InitializeOrder[i]
    /\ (run = "running" /\ task = "template") => orphans + Running(procs) = 0
    /\ FirstCallOfTask => orphans = 0

\* The tasks C18 names as Fatal.
FatalTasks == {"runCreateNextApp", "template", "initializeSupabase"}

\* C18: once a Fatal task has rejected, no further task is started, and the
\* run cannot resolve: it rejects and exits with code 1.
C18_FatalFailureStopsTheRun ==
    /\ [](  (run # "none" /\ task \in FatalTasks /\ result = "rejected")
              => /\ ran[Len(ran)] = task
                 /\ run \in {"running", "rejected"}
                 /\ run = "rejected" => exitCode = 1)
    /\ [][ (run # "none" /\ task \in FatalTasks /\ result = "rejected")
              => /\ task' = task
                 /\ ran' = ran
                 /\ result' = "rejected"
                 /\ run' \in {run, "rejected"} ]_vars

C18_Witness ==
    /\ task = "initializeSupabase"
    /\ result = "rejected"
    /\ resultError = SupabaseFailed
    /\ run = "rejected"
    /\ ran = SubSeq(InitializeOrder, 1, 3)

\* C19: whatever fails in initializeGit, it resolves, with a warning logged;
\* initialize resolves and the process can only exit with code 0.
C19_GitFailureIsRecoverable ==
    (task = "initializeGit" /\ LastAttempted.r = "fail")
        => /\ result = "resolved"
           /\ gitWarnings >= 1
           /\ run \in {"running", "resolved"}
           /\ exitCode \in {-1, 0}

C19_Witness ==
    /\ task = "initializeGit"
    /\ LastAttempted = [s |-> "commit", r |-> "fail"]
    /\ lastFailure = TimeoutError
    /\ retryCount = DefaultMaxRetries
    /\ run = "resolved"
    /\ exitCode = 0

\* C20: the process exits with 0 only after initialize resolved, every task
\* having run and the last one resolved; it exits with 1 when initialize
\* rejected or main stopped before it.
C20_ExitCode ==
    /\ exitCode \in {-1, 0, 1}
    /\ exitCode = 0 => /\ run = "resolved"
                       /\ ran = InitializeOrder
                       /\ result = "resolved"
    /\ run \in {"rejected", "aborted"} => exitCode = 1
    /\ run = "rejected" => result = "rejected"

C20_Witness ==
    /\ run = "rejected"
    /\ task = "template"
    /\ resultError.code = "ENOTFOUND"
    /\ exitCode = 1

\* C21: when runCreateNextApp rejects, it rejects with the very error its
\* executeWithRetry call threw, whatever the kind of that error.
C21_AppShellFailurePropagatedUnchanged ==
    (task = "runCreateNextApp" /\ result = "rejected")
        => resultError = thrown

\* C22: handling a failure never raises an error of its own: no task rejects
\* with the TypeError of a handler call instead of the failure handled.
C22_DispatchNeverThrows ==
    result = "rejected" => resultError # NotAFunction

\* C24: when an executeWithRetry call has returned or thrown, every deadline
\* timer it armed has fired or been cleared, and none of its children, with
\* the stream handler attached to it, is still alive.
C24_NothingPendingAfterReturn ==
    pc \in {"returned", "thrown"}
        => /\ timersFired = Len(procs)
           /\ Running(procs) = 0

\* C25: while initializeTailwind writes the two files itself, no child
\* process started in the project directory is still running.
C25_ManualWriteHasTheDirectoryAlone ==
    (task = "initializeTailwind" /\ LastAttempted.s = "manual")
        => orphans + Running(procs) = 0

\* C28: initializeSupabase does not give up after a 'context canceled'
\* failure of the direct command: execSync is attempted after it.
C28_ContextCanceledReachesExecSync ==
    (/\ task = "initializeSupabase"
     /\ result = "rejected"
     /\ LastAttempted.s = "direct")
        => ~MsgIncludes(lastFailure, "context canceled")

\* C29: an executeWithRetry call that has started eventually returns or
\* throws, whether or not its children ever exit; retryCount grows by one
\* with each retry and never exceeds maxRetries.
C29_CallTerminates ==
    /\ [](retryCount <= maxRetries)
    /\ [][(pc = "backoff" /\ pc' # "backoff")
             => retryCount' = retryCount + 1]_vars
    /\ (pc \in {"await", "backoff"}) ~> (pc \in {"returned", "thrown"})

\* Both attempts timed out, the call threw, and neither child has exited.
C29_Witness ==
    /\ task = "executeWithRetry"
    /\ pc = "thrown"
    /\ thrown = TimeoutError
    /\ retryCount = 1
    /\ procs = <<"running", "running">>

\* C27: a failure with a filesystem code and no process or network marker
\* that reaches the outermost catch block of a task is handed to
\* handleFileSystemError there.
C27_FileSystemFailuresRouted ==
    (/\ result = "rejected"
     /\ resultError.code \in {"EACCES", "ENOENT", "EEXIST"}
     /\ ~IsProcessError(resultError)
     /\ ~IsNetworkError(resultError))
        => handler = "handleFileSystemError"

\* C26: each retry of an executeWithRetry call has been announced by one
\* warning when its backoff sleep begins, and each strategy of a chain after
\* the first has been announced by one warning when it starts.
C26_RetriesAndFallbacksReported ==
    /\ warns = Len(sleeps)
    /\ warns = retryCount + (IF pc = "backoff" THEN 1 ELSE 0)
    /\ task \in ChainTasks => reported = Len(attempted) - 1

C26_Witness ==
    /\ task = "initializeTailwind"
    /\ LastAttempted.s = "manual"
    /\ reported = 3
    /\ warns = 2
    /\ retryCount = 2

\* C23: the spinner an instance of the stress test started is stopped,
\* succeeded or failed by that instance only.
C23_SpinnerTouchedByItsOwnerOnly ==
    \A i \in Instances : endedBy[i] \in {-1, i}

\* C30: the results are counted and the directories removed only once every
\* instance has settled; each instance is counted once, as a success or as a
\* failure; and whatever has become of the others, an instance that has not
\* settled can take its next step.
C30_StressTestWaitsForAll ==
    /\ removed => AllSettled
    /\ (stress = "done" \/ (stress = "failed" /\ AllSettled))
          => /\ successCount + failureCount = numInstances
             /\ successCount =
                  Cardinality({i \in Instances : inst[i] = "fulfilled"})
    /\ stress = "done" => removed
    /\ stress = "running" => successCount + failureCount = 0
    /\ stress = "running"
          => \A i \in Instances : ~Settled(i) => ENABLED InstanceStep(i)

C30_Witness ==
    /\ stress = "done"
    /\ inst[0] = "rejected"
    /\ inst[1] = "fulfilled"
    /\ inst[2] = "fulfilled"
    /\ successCount = 2
    /\ failureCount = 1
    /\ removed

\* C36: a call of executeWithRetry returns only after the child of its
\* latest attempt exited with code 0 while it was awaited; it never returns
\* without a child, nor after a failed attempt.
C36_ReturnsOnlyAfterASuccessfulAttempt ==
    pc = "returned" =>
        /\ procs # <<>>
        /\ procs[Current] = "ok"
        /\ retryCount <= maxRetries
        /\ Len(procs) = retryCount + 1

C36_Witness ==
    /\ task = "executeWithRetry"
    /\ pc = "returned"
    /\ maxRetries = 0
    /\ procs = <<"ok">>

\* C37: a deadline timer or a child of an earlier attempt (or of an earlier
\* call) that fires or ends late changes neither the position of the call,
\* nor its retry count, its errors, its warnings and delays, nor the child
\* of the attempt being awaited.
LateEvent ==
    \/ /\ timersFired' = timersFired + 1
       /\ (pc # "await" \/ timersFired + 1 < Current)
    \/ staleTimers' < staleTimers
    \/ orphans' < orphans
    \/ \E i \in 1..Len(procs) :
          /\ ~(pc = "await" /\ i = Current)
          /\ procs[i] = "running"
          /\ Len(procs') = Len(procs)
          /\ procs'[i] # "running"

C37_LateEventsChangeNothing ==
    [][LateEvent =>
          /\ UNCHANGED <<pc, maxRetries, retryCount, lastError, thrown,
                         sleeps, warns>>
          /\ Len(procs') = Len(procs)
          /\ pc = "await" => procs'[Current] = procs[Current]]_vars

C37_Witness ==
    /\ pc = "await"
    /\ procs = <<"gone", "failed", "running">>
    /\ timersFired = 2
    /\ retryCount = 2
    /\ lastError # TimeoutError

\* C33 as stated: when validateRepositoryUrl answered false, the repository
\* handed to downloadTemplate is the default one and is not the requested
\* one.
C33_RequestedNeverDownloadedWhenInvalid ==
    (template.downloaded # "none" /\ ~template.isValidRepo)
        => /\ template.downloaded = defaultTemplateRepo
           /\ template.downloaded # template.templateRepo

\* C33, amended: when validateRepositoryUrl answered false, the repository
\* handed to downloadTemplate is the default one, so the requested one is
\* downloaded only if it is the default repository itself; the validation
\* always ends with an answer, after which the download is in progress; and
\* once the template is downloaded and copied initializeSupabase is the next
\* task (it starts as soon as the timers left pending allow the call).
C33_InvalidRepositoryFallsBackToDefault ==
    /\ (template.downloaded # "none" /\ ~template.isValidRepo)
          => /\ template.downloaded = defaultTemplateRepo
             /\ (template.downloaded = template.templateRepo
                   => template.templateRepo = defaultTemplateRepo)
    /\ (template.downloaded # "none" /\ template.isValidRepo)
          => template.downloaded = template.templateRepo
    /\ (Len(ran) >= 2) <=> (template.downloaded # "none")
    /\ (run = "running" /\ task = "template" /\ result = "resolved"
          /\ staleTimers + (Len(procs) - timersFired) <= MaxStale)
          => ENABLED RunSupabase
    /\ Len(ran) >= 3 => ran[3] = "initializeSupabase"

C33_Witness ==
    /\ ~template.isValidRepo
    /\ template.templateRepo = "https://github.com/acme/starter"
    /\ template.downloaded = defaultTemplateRepo
    /\ Len(ran) >= 3
    /\ ran[3] = "initializeSupabase"

\* C34: initialize has been invoked only if the dependency check passed or
\* was skipped and the target directory did not exist or was removed after
\* the user's confirmation; after a failed dependency check or a declined
\* overwrite the tool has exited with code 1, the directory is as it was
\* and no task has run.
C34_InitializeOnlyOnACleanStart ==
    /\ run \in {"running", "resolved", "rejected"}
          => /\ deps = "ok"
             /\ target \in {"absent", "removed", "created"}
             /\ ran # <<>>
    /\ (run = "aborted" /\ target # "undeletable")
          => /\ deps = "missing" \/ target = "kept"
             /\ target \in {"absent", "kept"}
             /\ exitCode = 1
             /\ ran = <<>>
             /\ task = "none"
             /\ procs = <<>>
             /\ ~spinner
    /\ run = "aborted" => (exitCode = 1 /\ ran = <<>> /\ procs = <<>>)
    /\ (run = "none") <=> (deps = "unchecked")

C34_Witness ==
    /\ run = "aborted"
    /\ deps = "ok"
    /\ target = "kept"
    /\ exitCode = 1
    /\ ran = <<>>

\* C35: `npm run setup` is spawned only after initialize resolved, and
\* however it ends (exit code 0, another exit code, spawn error) the run
\* ends with the success message and exit code 0.
C35_SetupFailureIsAWarning ==
    /\ setup # "none" => /\ run = "resolved"
                         /\ ran = InitializeOrder
                         /\ result = "resolved"
    /\ setup \in {"ok", "failed", "unspawned"} => exitCode = 0
    /\ setup = "running" => exitCode = -1
    /\ exitCode = 0 => setup \in {"ok", "failed", "unspawned"}

C35_Witness ==
    /\ setup = "failed"
    /\ run = "resolved"
    /\ exitCode = 0

\* C32: installDependencies resolves exactly when both installs of a stage
\* succeeded, the alternative stage being tried after any failure of the
\* standard one: so it rejects only when a stage of each kind has failed.
C32_InstallStages ==
    /\ (task = "installDependencies" /\ result = "resolved")
          => LastAttempted.r = "ok"
    /\ (task = "installDependencies" /\ result = "rejected")
          => /\ Len(attempted) = 2
             /\ attempted[1] = [s |-> "standard", r |-> "fail"]
             /\ attempted[2] = [s |-> "alternative", r |-> "fail"]

\* C38: initializeTailwind creates the files by hand only as its fourth
\* strategy, after the npx, direct and local-path commands all failed; when
\* a command strategy succeeded, each file is what the tool made of it (as
\* it was before the call, or the tool's own), never the defaults written
\* by this call; and before the manual strategy the call writes nothing.
C38_ManualCreationOnlyAfterThreeFailures ==
    task = "initializeTailwind" =>
        /\ \A i \in 1..Len(attempted) :
              attempted[i].s = "manual"
                 => /\ i = 4
                    /\ \A j \in 1..3 : attempted[j].r = "fail"
                    /\ <<attempted[1].s, attempted[2].s, attempted[3].s>>
                          = <<"npx", "direct", "local">>
        /\ (result = "resolved" /\ LastAttempted.s # "manual")
              => /\ LastAttempted.r = "ok"
                 /\ \A f \in ConfigFiles : files[f] \in {prevFiles[f], ToolFile}
        /\ (result = "pending" /\ LastAttempted.s # "manual")
              => files = prevFiles

C38_Witness ==
    /\ task = "initializeTailwind"
    /\ result = "resolved"
    /\ Len(attempted) = 3
    /\ attempted[2].r = "fail"
    /\ LastAttempted = [s |-> "local", r |-> "ok"]
    /\ files["tailwind.config.js"] = ToolFile

\* The task functions of lib/project-initializer.js.
TaskFunctions ==
    {"runCreateNextApp", "initializeSupabase", "installDependencies",
     "initializeTailwind", "configureEnvironment", "runInitScript",
     "initializeGit"}

\* C39: once a task function has returned or thrown, the logger holds no
\* active spinner.
C39_NoSpinnerLeftBehind ==
    (task \in TaskFunctions /\ result \in {"resolved", "rejected"})
        => ~spinner

\* C31: when a termination signal ends the tool while executeWithRetry
\* awaits a child, that child is no longer running once the tool has exited.
C31_InterruptTerminatesTheChild ==
    [][(exitCode = -1 /\ exitCode' \in {130, 143} /\ pc = "await")
          => procs'[Current] # "running"]_vars

====
